---------------------------- MODULE Spec2Model ----------------------------
(***************************************************************************)
(* Model of the podcast generator service (src/app.py): the MIME parameter *)
(* parser, the WAV container encoder, the stream assembler and the         *)
(* POST /generate request handler with its temporary-file lifecycle.       *)
(*                                                                         *)
(* Text is modelled as sequences of one-character strings, bytes as        *)
(* integers 0..255, a raised exception as the name of its type.            *)
(***************************************************************************)
EXTENDS Integers, Sequences, FiniteSets, TLC

VARIABLES
    \* ---- parse_audio_mime_type, run statement by statement ----
    mime_type,        \* the descriptor passed to the function under test
    parts,            \* tokens of mime_type.split(";") not yet visited
    bits_per_sample,  \* local of parse_audio_mime_type
    rate,             \* local of parse_audio_mime_type
    ppc,              \* position in parse_audio_mime_type
    \* ---- convert_to_wav ----
    audio_in,         \* the audio_data argument of convert_to_wav
    wav,              \* its outcome: [exc, value]
    \* ---- POST /generate; per request unless said otherwise ----
    pc,               \* position of the request in generate_podcast
    body,             \* the request's JSON body
    api_key,          \* os.environ.get("GEMINI_API_KEY"), process-wide
    delivered,        \* chunks the upstream stream has handed to the loop
    audio_data,       \* the bytearray accumulator
    temp_file,        \* temp_file.name, or None
    audio_file_path,  \* local of generate_podcast, or None
    exc,              \* the exception in flight, or "none"
    origin,           \* where the exception in flight was raised
    response,         \* the response handed to the client
    upstream,         \* the request's upstream call: free or scripted
    fs                \* the temporary directory: name -> file

codecVars == <<mime_type, parts, bits_per_sample, rate, ppc, audio_in, wav>>
reqVars   == <<pc, body, api_key, delivered, audio_data, temp_file,
               audio_file_path, exc, origin, response, upstream, fs>>
vars      == <<mime_type, parts, bits_per_sample, rate, ppc, audio_in, wav,
               pc, body, api_key, delivered, audio_data, temp_file,
               audio_file_path, exc, origin, response, upstream, fs>>

None == "None"

(***************************************************************************)
(* Bounds of the model.                                                    *)
(***************************************************************************)
MaxTokens  == 2    \* ";"-separated tokens in a generated descriptor
MaxPayload == 2    \* bytes in a payload handed to convert_to_wav
MaxChunks  == 2    \* chunks one upstream stream delivers
NumRequests == 2   \* requests in flight together

(***************************************************************************)
(* Python str and int operations used by the source.                       *)
(***************************************************************************)
UpperAlpha == <<"A","B","C","D","E","F","G","H","I","J","K","L","M",
                "N","O","P","Q","R","S","T","U","V","W","X","Y","Z">>
LowerAlpha == <<"a","b","c","d","e","f","g","h","i","j","k","l","m",
                "n","o","p","q","r","s","t","u","v","w","x","y","z">>
Whitespace == {" ", "\t"}
Digits     == <<"0","1","2","3","4","5","6","7","8","9">>

IsDigit(c) == \E i \in 1..10 : Digits[i] = c
DigitVal(c) == (CHOOSE i \in 1..10 : Digits[i] = c) - 1

\* str.lower()
LowerChar(c) ==
    IF \E i \in 1..26 : UpperAlpha[i] = c
    THEN LowerAlpha[CHOOSE i \in 1..26 : UpperAlpha[i] = c]
    ELSE c
Lower(s) == [i \in 1..Len(s) |-> LowerChar(s[i])]

\* str.strip()
RECURSIVE LStrip(_)
LStrip(s) ==
    IF s # <<>> /\ Head(s) \in Whitespace THEN LStrip(Tail(s)) ELSE s
RECURSIVE RStrip(_)
RStrip(s) ==
    IF s # <<>> /\ s[Len(s)] \in Whitespace
    THEN RStrip(SubSeq(s, 1, Len(s) - 1)) ELSE s
Strip(s) == RStrip(LStrip(s))

\* str.startswith(p)
StartsWith(s, p) == Len(s) >= Len(p) /\ SubSeq(s, 1, Len(p)) = p

\* str.split(sep): every piece between separators, empty pieces kept
RECURSIVE Split(_, _)
Split(s, sep) ==
    IF s = <<>> THEN << <<>> >>
    ELSE LET rest == Split(Tail(s), sep)
         IN  IF Head(s) = sep
             THEN << <<>> >> \o rest
             ELSE << <<Head(s)>> \o Head(rest) >> \o Tail(rest)

\* str.split(sep, 1): at most one split, at the first separator
SplitOnce(s, sep) ==
    IF \E i \in 1..Len(s) : s[i] = sep
    THEN LET k == CHOOSE i \in 1..Len(s) :
                      s[i] = sep /\ \A j \in 1..(i - 1) : s[j] # sep
         IN  << SubSeq(s, 1, k - 1), SubSeq(s, k + 1, Len(s)) >>
    ELSE << s >>

\* list[i] for a 0-based index i: the element, or IndexError
Index(list, i) ==
    IF i + 1 \in 1..Len(list)
    THEN [exc |-> "none", value |-> list[i + 1]]
    ELSE [exc |-> "IndexError", value |-> None]

RECURSIVE DigitsValue(_)
DigitsValue(ds) ==
    IF ds = <<>> THEN 0
    ELSE 10 * DigitsValue(SubSeq(ds, 1, Len(ds) - 1)) + DigitVal(ds[Len(ds)])

\* int(s): surrounding whitespace is ignored, then an optional sign and
\* decimal digits, single underscores allowed between digits; anything
\* else is a ValueError.
IntLiteral(core) ==
    /\ core # <<>>
    /\ IsDigit(core[1]) /\ IsDigit(core[Len(core)])
    /\ \A i \in 1..Len(core) : IsDigit(core[i]) \/ core[i] = "_"
    /\ \A i \in 1..(Len(core) - 1) : ~(core[i] = "_" /\ core[i + 1] = "_")
IntMagnitude(core, negative) ==
    IF IntLiteral(core)
    THEN [exc |-> "none",
          value |-> IF negative THEN 0 - DigitsValue(SelectSeq(core, IsDigit))
                    ELSE DigitsValue(SelectSeq(core, IsDigit))]
    ELSE [exc |-> "ValueError", value |-> None]
IntSigned(t) ==
    IF t # <<>> /\ Head(t) \in {"+", "-"}
    THEN IntMagnitude(Tail(t), Head(t) = "-")
    ELSE IntMagnitude(t, FALSE)
IntOf(s) == IntSigned(Strip(s))

(***************************************************************************)
(* parse_audio_mime_type                                                   *)
(***************************************************************************)
DefaultBits == 16
DefaultRate == 24000

RATE_EQ == <<"r","a","t","e","=">>
AUDIO_L == <<"a","u","d","i","o","/","L">>

\* an except clause that names IndexError alone
ExceptClause_IndexOnly == {"IndexError"}

\* the exception types the two try blocks catch
ExceptClause == {"ValueError", "IndexError"}

\* the if test with the lower() call left out
IsRateParam_CaseSensitive(param) == StartsWith(param, RATE_EQ)

\* line 86: the test of the if branch, on the stripped token
IsRateParam(param)  == StartsWith(Lower(param), RATE_EQ)

\* int(param.split(sep, 1)[1]), the body of either try block
IntOfPiece(piece) == IF piece.exc # "none" THEN piece ELSE IntOf(piece.value)
TryInt(param, sep) == IntOfPiece(Index(SplitOnce(param, sep), 1))

\* lines 87-92: rate is assigned unless the try block raised; an exception
\* the except clause does not name propagates
SetRate(st, r) ==
    IF r.exc = "none" THEN [st EXCEPT !.rate = r.value]
    ELSE IF r.exc \in ExceptClause THEN st
    ELSE [st EXCEPT !.exc = r.exc]

\* lines 94-97: the same for bits_per_sample
SetBits(st, b) ==
    IF b.exc = "none" THEN [st EXCEPT !.bits = b.value]
    ELSE IF b.exc \in ExceptClause THEN st
    ELSE [st EXCEPT !.exc = b.exc]

\* lines 86-97 on the stripped token
ParamBranch(st, param) ==
    IF IsRateParam(param) THEN SetRate(st, TryInt(param, "="))
    ELSE IF StartsWith(param, AUDIO_L) THEN SetBits(st, TryInt(param, "L"))
    ELSE st

\* One pass of the for loop's body over one token. st = [bits, rate, exc].
ParamStep(st, token) == ParamBranch(st, Strip(token))

RECURSIVE ParseLoop(_, _)
ParseLoop(st, tokens) ==
    IF tokens = <<>> \/ st.exc # "none" THEN st
    ELSE ParseLoop(ParamStep(st, Head(tokens)), Tail(tokens))

\* the whole function: [bits, rate, exc]
parse_audio_mime_type(m) ==
    ParseLoop([bits |-> DefaultBits, rate |-> DefaultRate, exc |-> "none"],
              Split(m, ";"))


(***************************************************************************)
(* struct.pack and convert_to_wav                                          *)
(***************************************************************************)
\* the same field written big-endian (">" for "<" in the format)
RECURSIVE BE(_, _)
BE(v, w) == IF w = 0 THEN <<>> ELSE BE(v \div 256, w - 1) \o <<v % 256>>

\* little-endian bytes of v in a field w bytes wide
RECURSIVE LE(_, _)
LE(v, w) == IF w = 0 THEN <<>> ELSE <<v % 256>> \o LE(v \div 256, w - 1)

\* struct.pack "H" and "I": the value must fit the unsigned field
FitsH(v) == v >= 0 /\ v <= 65535
FitsI(v) == v >= 0 /\ v \div 65536 <= 65535

RIFF == <<82, 73, 70, 70>>
WAVE == <<87, 65, 86, 69>>
FMT_ == <<102, 109, 116, 32>>
DATA == <<100, 97, 116, 97>>

\* struct.pack("<4sI4s4sIHHIIHH4sI", ...): the 44 bytes, or struct.error
Pack(size, fmt, format, channels, srate, brate, align, bits, dsize) ==
    IF /\ FitsI(size) /\ FitsI(fmt) /\ FitsH(format) /\ FitsH(channels)
       /\ FitsI(srate) /\ FitsI(brate) /\ FitsH(align) /\ FitsH(bits)
       /\ FitsI(dsize)
    THEN [exc |-> "none",
          value |-> RIFF \o LE(size, 4) \o WAVE \o FMT_ \o LE(fmt, 4)
                    \o LE(format, 2) \o LE(channels, 2) \o LE(srate, 4)
                    \o LE(brate, 4) \o LE(align, 2) \o LE(bits, 2)
                    \o DATA \o LE(dsize, 4)]
    ELSE [exc |-> "struct.error", value |-> None]

\* the locals of convert_to_wav
num_channels == 1
bytes_per_sample(bits) == bits \div 8
block_align(bits) == num_channels * bytes_per_sample(bits)
byte_rate(bits, sample_rate) == sample_rate * block_align(bits)
chunk_size(data_size) == 36 + data_size

\* lines 49-64
Header(bits, sample_rate, data_size) ==
    Pack(chunk_size(data_size), 16, 1, num_channels, sample_rate,
         byte_rate(bits, sample_rate), block_align(bits), bits, data_size)

\* line 65: header + audio_data
WithHeader(header, data) ==
    IF header.exc # "none" THEN header
    ELSE [exc |-> "none", value |-> header.value \o data]

\* lines 39-65, given the parsed parameters
Encode(data, parameters) ==
    IF parameters.exc # "none"
    THEN [exc |-> parameters.exc, value |-> None]
    ELSE WithHeader(Header(parameters.bits, parameters.rate, Len(data)), data)

\* convert_to_wav(audio_data, mime_type): [exc, value]
convert_to_wav(data, m) == Encode(data, parse_audio_mime_type(m))

(***************************************************************************)
(* Inputs of the two pure functions.                                       *)
(***************************************************************************)
\* str(n) for an integer n
RECURSIVE NatStr(_)
NatStr(n) ==
    IF n < 10 THEN <<Digits[n + 1]>>
    ELSE NatStr(n \div 10) \o <<Digits[(n % 10) + 1]>>
DecStr(n) == IF n < 0 THEN <<"-">> \o NatStr(0 - n) ELSE NatStr(n)

BitsValues == {0, 8, 12, 16, 24, -8, 65536}
RateValues == {0, 8000, 48000, -1}

WellFormedTokens ==
    {AUDIO_L \o DecStr(n) : n \in BitsValues}
        \cup {RATE_EQ \o DecStr(r) : r \in RateValues}
OtherTokens ==
    { <<>>,                                             \* ""
      <<"r","a","t","e","=">>,                          \* "rate="
      <<"r","a","t","e","=","x">>,                      \* "rate=x"
      <<" ","R","A","T","E","=","8","0","0","0">>,      \* " RATE=8000"
      <<"R","a","t","e","=","1","_","0"," ">>,          \* "Rate=1_0 "
      <<"a","u","d","i","o","/","L","x">>,              \* "audio/Lx"
      <<"a","u","d","i","o","/","L">>,                  \* "audio/L"
      <<"a","u","d","i","o","/","l","2","4">>,          \* "audio/l24"
      <<" ","a","u","d","i","o","/","L","8","\t">>,     \* " audio/L8\t"
      <<"c","o","d","e","c","=","L","8">> }             \* "codec=L8"
Tokens == WellFormedTokens \cup OtherTokens

RECURSIVE Join(_)
Join(ts) ==
    IF ts = <<>> THEN <<>>
    ELSE IF Len(ts) = 1 THEN ts[1]
    ELSE ts[1] \o <<";">> \o Join(Tail(ts))

Descriptors ==
    {Join(ts) : ts \in UNION {[1..k -> Tokens] : k \in 0..MaxTokens}}

Bytes == {0, 255}
Payloads == UNION {[1..k -> Bytes] : k \in 0..MaxPayload}


(***************************************************************************)
(* parse_audio_mime_type, statement by statement.                          *)
(***************************************************************************)
NoRequests ==
    /\ pc = <<>> /\ body = <<>> /\ api_key = <<>> /\ delivered = <<>>
    /\ audio_data = <<>> /\ temp_file = <<>> /\ audio_file_path = <<>>
    /\ exc = <<>> /\ origin = <<>> /\ response = <<>> /\ upstream = <<>>
    /\ fs = <<>>

\* the outcome of a call not made yet
NotCalled == [exc |-> "pending", value |-> None]

InitParse ==
    /\ mime_type \in Descriptors
    /\ parts = None /\ bits_per_sample = None /\ rate = None
    /\ ppc = "start"
    /\ audio_in = <<>> /\ wav = NotCalled
    /\ NoRequests

\* lines 79-83: the defaults and the split
ParseBegin ==
    /\ ppc = "start"
    /\ bits_per_sample' = DefaultBits
    /\ rate' = DefaultRate
    /\ parts' = Split(mime_type, ";")
    /\ ppc' = "loop"
    /\ UNCHANGED <<mime_type, audio_in, wav, reqVars>>

\* lines 84-97: one iteration of the for loop
ParseParam ==
    /\ ppc = "loop" /\ parts # <<>>
    /\ LET st == ParamStep([bits |-> bits_per_sample, rate |-> rate,
                            exc |-> "none"], Head(parts))
       IN  /\ bits_per_sample' = st.bits
           /\ rate' = st.rate
           /\ ppc' = IF st.exc = "none" THEN "loop" ELSE "raised"
    /\ parts' = Tail(parts)
    /\ UNCHANGED <<mime_type, audio_in, wav, reqVars>>

\* line 99
ParseReturn ==
    /\ ppc = "loop" /\ parts = <<>>
    /\ ppc' = "returned"
    /\ UNCHANGED <<mime_type, parts, bits_per_sample, rate, audio_in, wav,
                   reqVars>>

NextParse == ParseBegin \/ ParseParam \/ ParseReturn
SpecParse == InitParse /\ [][NextParse]_vars

(***************************************************************************)
(* convert_to_wav applied to a payload and a descriptor.                   *)
(***************************************************************************)
InitWav ==
    /\ mime_type \in Descriptors
    /\ audio_in \in Payloads
    /\ parts = None /\ bits_per_sample = None /\ rate = None
    /\ ppc = "idle"
    /\ wav = NotCalled
    /\ NoRequests

\* lines 38-65
ConvertToWav ==
    /\ ppc = "idle" /\ wav.exc = "pending"
    /\ wav' = convert_to_wav(audio_in, mime_type)
    /\ UNCHANGED <<mime_type, parts, bits_per_sample, rate, ppc, audio_in,
                   reqVars>>

NextWav == ConvertToWav
SpecWav == InitWav /\ [][NextWav]_vars


(***************************************************************************)
(* The stream assembler: the body of the for loop of                       *)
(* generate_podcast_audio.                                                 *)
(***************************************************************************)
\* A chunk, as far as the loop reads it: chunk.candidates (None, an empty
\* list, or a list whose first candidate is read), candidates[0].content
\* (None or present), content.parts (None, empty, or a list whose first part
\* is read), parts[0].inline_data (None or present), inline_data.data and
\* inline_data.mime_type.
Chunk(cands, content, prts, inline, data, mime) ==
    [candidates |-> cands, content |-> content, parts |-> prts,
     inline_data |-> inline, data |-> data, mime_type |-> mime]

AUDIO_MPEG == <<"a","u","d","i","o","/","m","p","e","g">>
L16_24000  == AUDIO_L \o DecStr(16) \o <<";">> \o RATE_EQ \o DecStr(24000)
L24_48000  == AUDIO_L \o DecStr(24) \o <<";">> \o RATE_EQ \o DecStr(48000)
L_NEG8     == AUDIO_L \o DecStr(-8)

\* mimetypes.guess_extension on the media types of the model: the type is
\* lower-cased and looked up whole, parameters included
guess_extension(m) == IF Lower(m) = AUDIO_MPEG THEN ".mp3" ELSE None

\* the loop extending the accumulator by the payload without its header
\* (inline_data.data for data_buffer)
Extend_Headerless(acc, w) ==
    IF w.exc # "none" THEN [exc |-> w.exc, value |-> acc]
    ELSE [exc |-> "none", value |-> acc \o SubSeq(w.value, 45, Len(w.value))]

\* lines 176-179: the wrapped chunk is appended, unless wrapping raised
Extend(acc, w) ==
    IF w.exc # "none" THEN [exc |-> w.exc, value |-> acc]
    ELSE [exc |-> "none", value |-> acc \o w.value]

\* lines 160-179 on one chunk: [exc, value], value the accumulator after it
ProcessChunk(acc, c) ==
    IF c.candidates = "None" THEN [exc |-> "none", value |-> acc]
    ELSE IF c.candidates = "empty" THEN [exc |-> "IndexError", value |-> acc]
    ELSE IF c.content = "None" THEN [exc |-> "none", value |-> acc]
    ELSE IF c.parts = "None" THEN [exc |-> "none", value |-> acc]
    ELSE IF c.parts = "empty" THEN [exc |-> "IndexError", value |-> acc]
    ELSE IF c.inline_data = "None" \/ c.data = <<>>
         THEN [exc |-> "none", value |-> acc]
    ELSE IF guess_extension(c.mime_type) # None
         THEN [exc |-> "none", value |-> acc \o c.data]
    ELSE Extend(acc, convert_to_wav(c.data, c.mime_type))

MetaChunks ==
    { Chunk("None",  "None", "None",  "None", <<>>, <<>>),
      Chunk("empty", "None", "None",  "None", <<>>, <<>>),
      Chunk("list",  "None", "None",  "None", <<>>, <<>>),
      Chunk("list",  "some", "None",  "None", <<>>, <<>>),
      Chunk("list",  "some", "empty", "None", <<>>, <<>>),
      Chunk("list",  "some", "list",  "None", <<>>, <<>>),
      Chunk("list",  "some", "list",  "some", <<>>, L16_24000) }
AudioChunk(data, mime) == Chunk("list", "some", "list", "some", data, mime)
AudioChunks ==
    {AudioChunk(d, m) : d \in {<<1>>, <<2, 3>>},
                        m \in {AUDIO_MPEG, L16_24000, L24_48000, L_NEG8}}
Chunks == MetaChunks \cup AudioChunks

(***************************************************************************)
(* The temporary directory.                                                *)
(***************************************************************************)
\* names tempfile may generate; as many are in play as there are requests
TempNames == <<"tmp1.wav", "tmp2.wav", "tmp3.wav", "tmp4.wav">>

NoFile == [exists |-> FALSE, owner |-> 0, content |-> <<>>]

\* os.path.exists
Exists(files, name) == files[name].exists

\* a temporary name picked without regard to the files that exist
FreeNames_Any(files) == DOMAIN files

\* the names tempfile.NamedTemporaryFile may pick: it creates the file
\* exclusively, so never a name that exists
FreeNames(files) == {n \in DOMAIN files : ~files[n].exists}

\* os.unlink
Unlink(files, name) == [files EXCEPT ![name] = NoFile]

\* a cleanup that removes nothing
RemoveIfExists_Skipped(files, name) == files

\* "if os.path.exists(name): os.unlink(name)"
RemoveIfExists(files, name) ==
    IF Exists(files, name) THEN Unlink(files, name) ELSE files

\* open(name, "wb") followed by f.write(data), by request who: the file is
\* created when it does not exist
WriteAll(files, name, data, who) ==
    [files EXCEPT ![name] =
        [exists |-> TRUE,
         owner |-> IF files[name].exists THEN files[name].owner ELSE who,
         content |-> data]]


(***************************************************************************)
(* POST /generate: generate_podcast and generate_podcast_audio.            *)
(***************************************************************************)
DAVID == <<"d","a","v","i","d",":">>
JANIS == <<"j","a","n","i","s",":">>

\* "sub in s"
Contains(s, sub) ==
    \E i \in 1..(Len(s) - Len(sub) + 1) : SubSeq(s, i, i + Len(sub) - 1) = sub

\* request.get_json(): no data, or an object whose "script" is absent, not a
\* string, or a string
Scripts ==
    { <<>>, <<" ", "\t">>, DAVID, <<"J","a","n","i","s",":">>,
      <<"D","A","V","I","D",":">> \o <<" ">> \o JANIS,
      JANIS \o <<"D","a","v","i","d",":">> }
Bodies ==
    { [data |-> "none",   script |-> "absent",    text |-> <<>>],
      [data |-> "object", script |-> "absent",    text |-> <<>>],
      [data |-> "object", script |-> "nonstring", text |-> <<>>] }
    \cup {[data |-> "object", script |-> "str", text |-> t] : t \in Scripts}

\* os.environ.get("GEMINI_API_KEY"): unset, empty or set
ApiKeys == {None, "", "key"}

\* what an upstream call or the response construction may raise
Raisable == {"ValueError", "RuntimeError"}

JsonError(status) == [status |-> status, kind |-> "json", content |-> <<>>]

\* "except ValueError" is tried first, "except Exception" next
IsValueError(e) == e = "ValueError"

Raise(r, e, where, at) ==
    /\ exc' = [exc EXCEPT ![r] = e]
    /\ origin' = [origin EXCEPT ![r] = where]
    /\ pc' = [pc EXCEPT ![r] = at]

\* lines 202-216: the body is read and validated
Validate(r) ==
    /\ pc[r] = "received"
    /\ LET b == body[r]
       IN  IF b.data = "none" \/ b.script = "absent"
              \/ (b.script = "str" /\
                    (\/ Strip(b.text) = <<>>
                     \/ ~Contains(Lower(b.text), DAVID)
                     \/ ~Contains(Lower(b.text), JANIS)))
           THEN /\ response' = [response EXCEPT ![r] = JsonError(400)]
                /\ origin' = [origin EXCEPT ![r] = "validation"]
                /\ pc' = [pc EXCEPT ![r] = "done"]
                /\ UNCHANGED exc
           ELSE IF b.script = "nonstring"
           THEN \* script_text.strip() on a value that is no string
                /\ Raise(r, "AttributeError", "validation", "except")
                /\ UNCHANGED response
           ELSE /\ pc' = [pc EXCEPT ![r] = "generate"]
                /\ UNCHANGED <<response, origin, exc>>
    /\ UNCHANGED <<body, api_key, delivered, audio_data, temp_file,
                   audio_file_path, fs, upstream, codecVars>>

\* lines 105-152: the credential is checked, the temporary file created and
\* the accumulator allocated
GenerateStart(r) ==
    /\ pc[r] = "generate"
    /\ IF api_key \in {None, ""}
       THEN /\ Raise(r, "ValueError", "credential", "except")
            /\ UNCHANGED <<temp_file, audio_data, fs>>
       ELSE \E n \in FreeNames(fs) :
            /\ fs' = [fs EXCEPT ![n] =
                        [exists |-> TRUE, owner |-> r, content |-> <<>>]]
            /\ temp_file' = [temp_file EXCEPT ![r] = n]
            /\ audio_data' = [audio_data EXCEPT ![r] = <<>>]
            /\ pc' = [pc EXCEPT ![r] = "stream"]
            /\ UNCHANGED <<exc, origin>>
    /\ UNCHANGED <<body, api_key, delivered, audio_file_path, response,
                   upstream, codecVars>>

\* The upstream call of a request is either free (any chunk of the model,
\* MaxChunks at most, the end at any point) or scripted (the chunks of
\* u.chunks in order, then the end). Either may raise at any point.
\* A free stream raises any exception of Raisable, a scripted one a
\* RuntimeError.
FreeStream == [scripted |-> FALSE, chunks |-> <<>>, raises |-> Raisable]
Scripted(chunks) ==
    [scripted |-> TRUE, chunks |-> chunks, raises |-> {"RuntimeError"}]

\* the chunks the stream may yield after those in seen
Yields(u, seen) ==
    IF u.scripted
    THEN IF Len(seen) < Len(u.chunks) THEN {u.chunks[Len(seen) + 1]} ELSE {}
    ELSE IF Len(seen) < MaxChunks THEN Chunks ELSE {}

\* whether the stream may end after the chunks in seen
MayEnd(u, seen) == u.scripted => Len(seen) = Len(u.chunks)

\* the loop body ran on a chunk with outcome out: the loop goes on, or the
\* exception reaches the except block of line 187
LoopBody(r, out) ==
    /\ audio_data' = [audio_data EXCEPT ![r] = out.value]
    /\ IF out.exc = "none"
       THEN UNCHANGED <<exc, origin, pc>>
       ELSE Raise(r, out.exc, "chunk", "audio_except")

\* lines 155-179: the stream yields one more chunk and the loop body runs
NextChunk(r) ==
    /\ pc[r] = "stream"
    /\ \E c \in Yields(upstream[r], delivered[r]) :
          /\ delivered' = [delivered EXCEPT ![r] = Append(@, c)]
          /\ LoopBody(r, ProcessChunk(audio_data[r], c))
    /\ UNCHANGED <<body, api_key, temp_file, audio_file_path, response, fs,
                   upstream, codecVars>>

\* line 155: the stream raises instead of yielding
StreamRaises(r) ==
    /\ pc[r] = "stream"
    /\ \E e \in upstream[r].raises : Raise(r, e, "upstream", "audio_except")
    /\ UNCHANGED <<body, api_key, delivered, audio_data, temp_file,
                   audio_file_path, response, fs, upstream, codecVars>>

\* line 155: the stream is exhausted
StreamEnds(r) ==
    /\ pc[r] = "stream"
    /\ MayEnd(upstream[r], delivered[r])
    /\ pc' = [pc EXCEPT ![r] = "write"]
    /\ UNCHANGED <<body, api_key, delivered, audio_data, temp_file,
                   audio_file_path, exc, origin, response, fs, upstream,
                   codecVars>>

\* lines 182-185 and 219: the file is written and its name returned to
\* generate_podcast; the locals of generate_podcast_audio are gone
WriteFile(r) ==
    /\ pc[r] = "write"
    /\ fs' = WriteAll(fs, temp_file[r], audio_data[r], r)
    /\ audio_file_path' = [audio_file_path EXCEPT ![r] = temp_file[r]]
    /\ temp_file' = [temp_file EXCEPT ![r] = None]
    /\ audio_data' = [audio_data EXCEPT ![r] = <<>>]
    /\ pc' = [pc EXCEPT ![r] = "send"]
    /\ UNCHANGED <<body, api_key, delivered, exc, origin, response, upstream,
                   codecVars>>

\* lines 182-183: the write fails part way
WriteFails(r) ==
    /\ pc[r] = "write"
    /\ \E k \in {0, Len(audio_data[r]) \div 2} :
          fs' = WriteAll(fs, temp_file[r], SubSeq(audio_data[r], 1, k), r)
    /\ Raise(r, "OSError", "write", "audio_except")
    /\ UNCHANGED <<body, api_key, delivered, audio_data, temp_file,
                   audio_file_path, response, upstream, codecVars>>

\* lines 187-191: generate_podcast_audio's except block; the exception is
\* raised again and the locals of generate_podcast_audio are gone
AudioExcept(r) ==
    /\ pc[r] = "audio_except"
    /\ fs' = RemoveIfExists(fs, temp_file[r])
    /\ temp_file' = [temp_file EXCEPT ![r] = None]
    /\ audio_data' = [audio_data EXCEPT ![r] = <<>>]
    /\ pc' = [pc EXCEPT ![r] = "except"]
    /\ UNCHANGED <<body, api_key, delivered, audio_file_path, exc, origin,
                   response, upstream, codecVars>>

\* lines 230-239: the response is built from the file and returned
SendFile(r) ==
    /\ pc[r] = "send"
    /\ IF Exists(fs, audio_file_path[r])
       THEN /\ response' = [response EXCEPT ![r] =
                   [status |-> 200, kind |-> "file",
                    content |-> fs[audio_file_path[r]].content]]
            /\ pc' = [pc EXCEPT ![r] = "open"]
            /\ UNCHANGED <<exc, origin>>
       ELSE /\ Raise(r, "FileNotFoundError", "response", "except")
            /\ UNCHANGED response
    /\ UNCHANGED <<body, api_key, delivered, audio_data, temp_file,
                   audio_file_path, fs, upstream, codecVars>>

\* lines 230-238: building the response raises
SendFails(r) ==
    /\ pc[r] = "send"
    /\ \E e \in Raisable : Raise(r, e, "response", "except")
    /\ UNCHANGED <<body, api_key, delivered, audio_data, temp_file,
                   audio_file_path, response, fs, upstream, codecVars>>

\* lines 241-250: the two except clauses of generate_podcast, which then
\* returns
HandleException(r) ==
    /\ pc[r] = "except"
    /\ IF IsValueError(exc[r])
       THEN /\ response' = [response EXCEPT ![r] = JsonError(400)]
            /\ UNCHANGED fs
       ELSE /\ fs' = IF audio_file_path[r] # None
                     THEN RemoveIfExists(fs, audio_file_path[r])
                     ELSE fs
            /\ response' = [response EXCEPT ![r] = JsonError(500)]
    /\ audio_file_path' = [audio_file_path EXCEPT ![r] = None]
    /\ pc' = [pc EXCEPT ![r] = "done"]
    /\ UNCHANGED <<body, api_key, delivered, audio_data, temp_file, exc,
                   origin, upstream, codecVars>>

\* lines 222-228 and 238: the response is closed and remove_file runs
ResponseClosed(r) ==
    /\ pc[r] = "open"
    /\ fs' = RemoveIfExists(fs, audio_file_path[r])
    /\ audio_file_path' = [audio_file_path EXCEPT ![r] = None]
    /\ pc' = [pc EXCEPT ![r] = "done"]
    /\ UNCHANGED <<body, api_key, delivered, audio_data, temp_file, exc,
                   origin, response, upstream, codecVars>>

Next ==
    \/ \E r \in DOMAIN pc : Validate(r)
    \/ \E r \in DOMAIN pc : GenerateStart(r)
    \/ \E r \in DOMAIN pc : NextChunk(r)
    \/ \E r \in DOMAIN pc : StreamRaises(r)
    \/ \E r \in DOMAIN pc : StreamEnds(r)
    \/ \E r \in DOMAIN pc : WriteFile(r)
    \/ \E r \in DOMAIN pc : WriteFails(r)
    \/ \E r \in DOMAIN pc : AudioExcept(r)
    \/ \E r \in DOMAIN pc : SendFile(r)
    \/ \E r \in DOMAIN pc : SendFails(r)
    \/ \E r \in DOMAIN pc : HandleException(r)
    \/ \E r \in DOMAIN pc : ResponseClosed(r)

CodecIdle ==
    /\ mime_type = <<>> /\ parts = None /\ bits_per_sample = None
    /\ rate = None /\ ppc = "unused" /\ audio_in = <<>> /\ wav = NotCalled

\* n requests have arrived; request r's upstream call is source[r]
InitRequests(n, source, bodies, keys) ==
    /\ body \in [1..n -> bodies]
    /\ api_key \in keys
    /\ upstream = source
    /\ pc = [r \in 1..n |-> "received"]
    /\ delivered = [r \in 1..n |-> <<>>]
    /\ audio_data = [r \in 1..n |-> <<>>]
    /\ temp_file = [r \in 1..n |-> None]
    /\ audio_file_path = [r \in 1..n |-> None]
    /\ exc = [r \in 1..n |-> "none"]
    /\ origin = [r \in 1..n |-> "none"]
    /\ response = [r \in 1..n |-> [status |-> 0, kind |-> "none", content |-> <<>>]]
    /\ fs = [name \in {TempNames[i] : i \in 1..n} |-> NoFile]
    /\ CodecIdle

\* one request, any body, any state of the credential, a free stream
Init == InitRequests(1, [r \in 1..1 |-> FreeStream], Bodies, ApiKeys)
Spec == Init /\ [][Next]_vars


\* NumRequests requests in flight together, each with a script that passes
\* or fails validation, the credential set, and a stream of one raw PCM
\* chunk and one MP3 chunk whose bytes name the request
OwnStream(r) ==
    Scripted(<<AudioChunk(<<r>>, L16_24000), AudioChunk(<<r, r>>, AUDIO_MPEG)>>)
ConcBodies ==
    { [data |-> "object", script |-> "absent", text |-> <<>>],
      [data |-> "object", script |-> "str", text |-> DAVID \o JANIS] }
InitConc ==
    InitRequests(NumRequests, [r \in 1..NumRequests |-> OwnStream(r)],
                 ConcBodies, {"key"})
SpecConc == InitConc /\ [][Next]_vars


(***************************************************************************)
(* Properties.                                                             *)
(***************************************************************************)
Last(seq) == seq[Len(seq)]

\* little-endian fields read back from a byte sequence, off the 0-based offset
U16(b, off) == b[off + 1] + 256 * b[off + 2]
U32(b, off) ==
    b[off + 1] + 256 * b[off + 2] + 65536 * b[off + 3] + 16777216 * b[off + 4]

\* a chunk that carries no usable audio payload
NoUsablePayload(c) ==
    \/ c.candidates \in {"None", "empty"}
    \/ c.content = "None"
    \/ c.parts \in {"None", "empty"}
    \/ c.inline_data = "None"
    \/ c.data = <<>>

\* what one chunk contributes to the assembled bytes
Contribution(c) ==
    IF NoUsablePayload(c) THEN <<>>
    ELSE IF guess_extension(c.mime_type) # None THEN c.data
    ELSE convert_to_wav(c.data, c.mime_type).value

RECURSIVE Expected(_)
Expected(cs) ==
    IF cs = <<>> THEN <<>> ELSE Contribution(Head(cs)) \o Expected(Tail(cs))

\* some temporary file created for request r exists
OwnsFile(r) == \E n \in DOMAIN fs : fs[n].exists /\ fs[n].owner = r

IsRawPcm(c) == ~NoUsablePayload(c) /\ guess_extension(c.mime_type) = None

\* C1: the accumulator, the file written and the body sent hold, in delivery
\* order, one contribution per chunk delivered: nothing for a skipped chunk,
\* the payload for a chunk whose type resolves to an extension, and
\* convert_to_wav(payload, mime), header included, for any other chunk.
C1_AssembledInOrder ==
    \A r \in DOMAIN pc :
        /\ pc[r] \in {"stream", "write"}
              => audio_data[r] = Expected(delivered[r])
        /\ pc[r] = "send"
              => fs[audio_file_path[r]].content = Expected(delivered[r])
        /\ pc[r] = "open"
              => response[r].content = Expected(delivered[r])

C1_TwoRawChunksWritten ==
    \E r \in DOMAIN pc :
        /\ pc[r] = "send"
        /\ Len(delivered[r]) = 2
        /\ IsRawPcm(delivered[r][1]) /\ IsRawPcm(delivered[r][2])
        /\ delivered[r][1].mime_type # delivered[r][2].mime_type
        /\ Len(fs[audio_file_path[r]].content)
              = 44 + Len(delivered[r][1].data) + 44 + Len(delivered[r][2].data)

\* C2: a chunk with no usable audio payload, wherever it comes in the
\* stream, raises nothing, leaves the accumulator as it was and leaves the
\* loop running.
C2_SkipsSilently ==
    [][\A r \in DOMAIN pc :
          (delivered'[r] # delivered[r] /\ NoUsablePayload(Last(delivered'[r])))
              => /\ exc'[r] = "none"
                 /\ audio_data'[r] = audio_data[r]
                 /\ pc'[r] = "stream"]_vars

\* C3: once the upstream stream has raised, the loop is never entered
\* again, no path is returned, the temporary file is gone by the time the
\* exception reaches generate_podcast, and the answer is a JSON error
\* object without audio.
C3_UpstreamFailure ==
    \A r \in DOMAIN pc :
        origin[r] = "upstream"
            => /\ pc[r] \in {"audio_except", "except", "done"}
               /\ audio_file_path[r] = None
               /\ pc[r] \in {"except", "done"} => ~OwnsFile(r)
               /\ pc[r] = "done"
                     => /\ response[r].kind = "json"
                        /\ response[r].status \in {400, 500}
                        /\ response[r].content = <<>>

C3_FailedAfterAudio ==
    \E r \in DOMAIN pc :
        /\ origin[r] = "upstream" /\ pc[r] = "done"
        /\ Expected(delivered[r]) # <<>>
        /\ response[r].kind = "json"

\* C4: a validation or configuration failure is answered with 400, a
\* failure during generation with 500.
C4_StatusClasses ==
    \A r \in DOMAIN pc :
        (pc[r] = "done" /\ response[r].kind = "json")
            => /\ origin[r] \in {"validation", "credential"}
                     => response[r].status = 400
               /\ origin[r] \in {"chunk", "upstream", "write", "response"}
                     => response[r].status = 500

\* parameters the encoder is specified for: a positive multiple of 8 for
\* bits_per_sample, every field in the range of its header field
InU16(v) == 0 <= v /\ v <= 65535
InU32(v) == 0 <= v /\ v \div 65536 <= 65535
ValidParameters(p) ==
    /\ p.exc = "none"
    /\ p.bits > 0 /\ p.bits % 8 = 0 /\ InU16(p.bits)
    /\ InU32(p.rate) /\ InU32(p.rate * (p.bits \div 8))

C6_EncoderNeverFails ==
    LET p == parse_audio_mime_type(mime_type)
    IN  wav.exc # "pending"
            => /\ wav.exc = "none"
               /\ InU16(p.bits) /\ InU16(p.bits \div 8)
               /\ InU32(p.rate) /\ InU32(p.rate * (p.bits \div 8))
               /\ InU32(36 + Len(audio_in)) /\ InU32(Len(audio_in))

\* the step of the parser over the token at the head of parts
TokenStep == ppc = "loop" /\ parts # <<>> /\ parts' = Tail(parts)
\* the text after a prefix of k characters
After(tok, k) == SubSeq(tok, k + 1, Len(tok))
RateToken(tok) == StartsWith(Lower(Strip(tok)), RATE_EQ)
BitsToken(tok) == ~RateToken(tok) /\ StartsWith(Strip(tok), AUDIO_L)
RateText(tok) == After(Strip(tok), 5)
BitsText(tok) == After(Strip(tok), 7)
Parses(text) == IntOf(text).exc = "none"
SetsRate(tok) == RateToken(tok) /\ Parses(RateText(tok))
SetsBits(tok) == BitsToken(tok) /\ Parses(BitsText(tok))
SomeTokenSetsRate(m) ==
    \E i \in 1..Len(Split(m, ";")) : SetsRate(Split(m, ";")[i])
SomeTokenSetsBits(m) ==
    \E i \in 1..Len(Split(m, ";")) : SetsBits(Split(m, ";")[i])

HoldsFile(r) == pc[r] \in {"stream", "write", "audio_except", "send", "open"}
FileOf(r) ==
    IF pc[r] \in {"send", "open"} THEN audio_file_path[r] ELSE temp_file[r]

\* C9: requests in flight together each have a temporary file of their own
\* and an accumulator fed by their own chunks only; each writes and returns
\* the bytes its own stream gives when run alone; a file is removed or
\* rewritten only by a step of the request that created it.
C9_NoInterference ==
    /\ [](\A r \in DOMAIN pc :
            /\ HoldsFile(r)
                  => /\ Exists(fs, FileOf(r))
                     /\ fs[FileOf(r)].owner = r
                     /\ \A q \in DOMAIN pc \ {r} :
                            HoldsFile(q) => FileOf(q) # FileOf(r)
            /\ pc[r] \in {"stream", "write"}
                  => audio_data[r] = Expected(delivered[r])
            /\ pc[r] = "send"
                  => fs[audio_file_path[r]].content = Expected(upstream[r].chunks)
            /\ response[r].status = 200
                  => response[r].content = Expected(upstream[r].chunks))
    /\ [][\A n \in DOMAIN fs :
            (fs[n].exists /\ fs'[n] # fs[n])
                => pc'[fs[n].owner] # pc[fs[n].owner]]_vars

C9_OneClosedOtherStillSending ==
    \E r, q \in DOMAIN pc :
        /\ r # q
        /\ pc[r] = "done" /\ response[r].status = 200
        /\ pc[q] = "send" /\ Exists(fs, audio_file_path[q])
        /\ response[r].content # fs[audio_file_path[q]].content

\* C10: once a request has completed, on whatever path, no temporary file
\* created for it is left.
C10_NoFileOutlivesRequest ==
    \A r \in DOMAIN pc :
        pc[r] = "done" => ~OwnsFile(r)

=============================================================================
